---- MODULE Spec2Model ----
(***************************************************************************)
(* Model of stockmarket.py: a Streamlit script that loads two Snowflake    *)
(* tables once (st.cache_data), and on every script run renders one of two *)
(* pages, each filtering a loaded table by the current widget values.      *)
(*                                                                         *)
(* A nullable cell is a sequence: <<>> is NULL, <<v>> is the value v.      *)
(* DAY_OVER_DAY_CHANGE is <<>> or the exact ratio <<numerator, denom>>.    *)
(* A DATE cell of a DataFrame is [kind, day, ns]: a datetime.date has kind *)
(* "date", a pandas Timestamp kind "datetime".                             *)
(***************************************************************************)
EXTENDS Integers, Sequences, FiniteSets, TLC

VARIABLES
    srcStocks,          \* remote STOCK_PRICE_TIMESERIES: set of long-format rows
    srcFx,              \* remote FX_RATES_TIMESERIES: set of rows
    cache,              \* st.cache_data store of load_data: [filled, stocks, fx]
    bound,              \* module-level names bound in the current script run
    df_stocks,          \* the DataFrame bound to df_stocks in the current run
    df_fx,              \* the DataFrame bound to df_fx in the current run
    status,             \* how the last script run ended
    trigger,            \* what caused the last script run
    calls,              \* external calls of the last run: <<[step, ok], ...>>
    loads,              \* completed executions of the body of load_data
    page,               \* selected_page
    date_range,         \* value delivered by st.date_input (0, 1 or 2 days)
    date_filter,        \* <<start, end>> the date filter was applied with, or <<>>
    ticker_options,     \* unique_tickers offered by the ticker multiselect
    selected_tickers,   \* selected_tickers
    metric,             \* metric
    selected_currencies,\* selected_currencies
    chart               \* what st.altair_chart received: [drawn, data, y]

vars == <<srcStocks, srcFx, cache, bound, df_stocks, df_fx, status, trigger,
          calls, loads, page, date_range, date_filter, ticker_options,
          selected_tickers, metric, selected_currencies, chart>>

----------------------------------------------------------------------------
(* Bounds of the model *)

MaxRows == 3
MaxDate == 2
MaxValue == 1
MaxSelected == 2

(* Program constants *)

DefaultDays == 30
\* '2019-01-01' on the model's day axis 1..MaxDate
FxStartDate == 2

TrackedTickers == {"AAPL", "MSFT", "AMZN", "GOOGL", "META", "TSLA", "NVDA"}
StockVariables == {"Nasdaq Volume", "Post-Market Close"}
Metrics == {"DAY_OVER_DAY_CHANGE", "POSTMARKET_CLOSE", "NASDAQ_VOLUME"}
DefaultMetric == "DAY_OVER_DAY_CHANGE"
currencies == {"British Pound Sterling", "Canadian Dollar", "United States Dollar",
               "Japanese Yen", "Polish Zloty", "Turkish Lira", "Swiss Franc"}
default_currencies == {"British Pound Sterling", "Canadian Dollar",
                       "United States Dollar", "Swiss Franc", "Polish Zloty"}
StockPage == "Daily Stock Performance Data"
FxPage == "Exchange (FX) Rates"
Pages == {StockPage, FxPage}

Null == <<>>
Some(v) == <<v>>

----------------------------------------------------------------------------
(* The remote tables the session may meet *)

Days == 1..MaxDate
Values == 0..MaxValue

RawRow(t, d, n, v) == [TICKER |-> t, DATE |-> d, VARIABLE_NAME |-> n, VALUE |-> v]

\* rows of the two tracked tickers the model varies, and two rows the filter
\* of load_data must drop (an untracked ticker, an unlisted variable)
RawStockRows ==
    {RawRow(t, d, n, v) : t \in {"AAPL", "MSFT"}, d \in Days, n \in StockVariables, v \in Values}
    \cup {RawRow("IBM", 1, "Post-Market Close", 1), RawRow("AAPL", 1, "Pre-Market Open", 1)}

RECURSIVE SubsetsUpTo(_, _)
SubsetsUpTo(U, k) ==
    IF k = 0 THEN {{}}
    ELSE LET prev == SubsetsUpTo(U, k - 1)
         IN prev \cup {s \cup {x} : s \in prev, x \in U}

FxRow(b, q, d, n, v) ==
    [BASE_CURRENCY_ID |-> b, QUOTE_CURRENCY_NAME |-> q, DATE |-> d,
     VARIABLE_NAME |-> n, VALUE |-> v]

SampleStockRows ==
    {RawRow("AAPL", 1, "Post-Market Close", 1),
     RawRow("AAPL", 2, "Post-Market Close", 0),
     RawRow("MSFT", 2, "Post-Market Close", 1),
     RawRow("MSFT", 2, "Nasdaq Volume", 1),
     RawRow("IBM", 1, "Post-Market Close", 1)}

SampleFxRows ==
    {FxRow("EUR", "Japanese Yen", FxStartDate, "EUR/JPY", 1),
     FxRow("EUR", "Japanese Yen", FxStartDate - 1, "EUR/JPY", 1),
     FxRow("USD", "Japanese Yen", FxStartDate, "USD/JPY", 1),
     FxRow("EUR", "Swiss Franc", FxStartDate, "EUR/CHF", 1),
     FxRow("EUR", "Indian Rupee", FxStartDate, "EUR/INR", 1)}

----------------------------------------------------------------------------
(* load_data: the stock query *)

SetMax(S) == CHOOSE x \in S : \A y \in S : y <= x

StockFilter(raw) ==
    {r \in raw : r.TICKER \in TrackedTickers /\ r.VARIABLE_NAME \in StockVariables}

GroupByVariable(rows) ==
    {{r \in rows : r.TICKER = q.TICKER /\ r.DATE = q.DATE
                   /\ r.VARIABLE_NAME = q.VARIABLE_NAME} : q \in rows}

\* groupBy("TICKER", "DATE"): the groups of rows that agree on both
GroupBy(rows) ==
    {{r \in rows : r.TICKER = q.TICKER /\ r.DATE = q.DATE} : q \in rows}

\* max(when(col("VARIABLE_NAME") == n, col("VALUE"))): NULL when no row matches
MaxWhen(group, n) ==
    LET vs == {r.VALUE : r \in {x \in group : x.VARIABLE_NAME = n}}
    IN IF vs = {} THEN Null ELSE Some(SetMax(vs))

Agg(group) ==
    LET any == CHOOSE r \in group : TRUE
    IN [TICKER |-> any.TICKER, DATE |-> any.DATE,
        NASDAQ_VOLUME |-> MaxWhen(group, "Nasdaq Volume"),
        POSTMARKET_CLOSE |-> MaxWhen(group, "Post-Market Close")]

Pivot(raw) == {Agg(g) : g \in GroupBy(StockFilter(raw))}

PartitionAll(wide, r) == wide

\* Window.partitionBy("TICKER"): the rows of r's partition
Partition(wide, r) == {s \in wide : s.TICKER = r.TICKER}

\* lag(col("POSTMARKET_CLOSE"), 1) over the partition ordered by DATE: the close
\* of the row just before r, NULL when r is the first row of its partition
Lag(wide, r) ==
    LET before == {s \in Partition(wide, r) : s.DATE < r.DATE}
    IN IF before = {} THEN Null
       ELSE (CHOOSE s \in before : \A u \in before : u.DATE <= s.DATE).POSTMARKET_CLOSE

DayOverDayWrongBase(cur, prev) ==
    IF cur = Null \/ prev = Null THEN Null ELSE <<cur[1] - prev[1], cur[1]>>

\* (close - lag) / lag: NULL when an operand is NULL
DayOverDay(cur, prev) ==
    IF cur = Null \/ prev = Null THEN Null ELSE <<cur[1] - prev[1], prev[1]>>

\* Snowflake's "/" raises "Division by zero" and the whole query fails
DivisionByZero(wide) ==
    \E r \in wide : r.POSTMARKET_CLOSE # Null /\ Lag(wide, r) = Some(0)

\* a Snowflake DATE arrives in pandas as a datetime.date
PyDate(d) == [kind |-> "date", day |-> d, ns |-> 0]

WithChange(wide) ==
    {[TICKER |-> r.TICKER, DATE |-> PyDate(r.DATE),
      NASDAQ_VOLUME |-> r.NASDAQ_VOLUME, POSTMARKET_CLOSE |-> r.POSTMARKET_CLOSE,
      DAY_OVER_DAY_CHANGE |-> DayOverDay(r.POSTMARKET_CLOSE, Lag(wide, r))] : r \in wide}

(* load_data: the FX query *)

FxQueryAnyBase(raw) ==
    {[BASE_CURRENCY_ID |-> r.BASE_CURRENCY_ID, QUOTE_CURRENCY_NAME |-> r.QUOTE_CURRENCY_NAME,
      DATE |-> PyDate(r.DATE), EXCHANGE_RATE |-> r.VARIABLE_NAME, VALUE |-> r.VALUE]
       : r \in {x \in raw : x.DATE >= FxStartDate}}

FxQuery(raw) ==
    {[BASE_CURRENCY_ID |-> r.BASE_CURRENCY_ID, QUOTE_CURRENCY_NAME |-> r.QUOTE_CURRENCY_NAME,
      DATE |-> PyDate(r.DATE), EXCHANGE_RATE |-> r.VARIABLE_NAME, VALUE |-> r.VALUE]
       : r \in {x \in raw : x.BASE_CURRENCY_ID = "EUR" /\ x.DATE >= FxStartDate}}

----------------------------------------------------------------------------
(* load_data and its st.cache_data wrapper *)

\* what the environment does to a script run: nothing, or it fails the
\* connection, the stock query or the FX query
Envs == {"ok", "connection", "stock_query", "fx_query"}

Step(name, ok) == [step |-> name, ok |-> ok]

Failed(err, steps) ==
    [ok |-> FALSE, error |-> err, stocks |-> {}, fx |-> {}, steps |-> steps]

load_data_partial(env) ==
    LET wide == Pivot(srcStocks)
    IN IF env = "stock_query" \/ DivisionByZero(wide)
       THEN Failed("stock_query_error", <<Step("stock_query", FALSE)>>)
       ELSE [ok |-> TRUE, error |-> "none", stocks |-> WithChange(wide),
             fx |-> IF env = "fx_query" THEN {} ELSE FxQuery(srcFx),
             steps |-> <<Step("stock_query", TRUE), Step("fx_query", env # "fx_query")>>]

\* the body of load_data: the two to_pandas() calls run the queries, stocks first;
\* an exception of either leaves the function without a return value
load_data(env) ==
    LET wide == Pivot(srcStocks)
    IN IF env = "stock_query" \/ DivisionByZero(wide)
       THEN Failed("stock_query_error", <<Step("stock_query", FALSE)>>)
       ELSE IF env = "fx_query"
       THEN Failed("fx_query_error", <<Step("stock_query", TRUE), Step("fx_query", FALSE)>>)
       ELSE [ok |-> TRUE, error |-> "none", stocks |-> WithChange(wide),
             fx |-> FxQuery(srcFx),
             steps |-> <<Step("stock_query", TRUE), Step("fx_query", TRUE)>>]

CacheHitNever(c) == FALSE

\* @st.cache_data(): a stored return value is served without running the body
CacheHit(c) == c.filled

\* the decorated load_data(): on a hit a copy of the stored tables, no query
cached_load_data(env) ==
    IF CacheHit(cache)
    THEN [ok |-> TRUE, error |-> "none", stocks |-> cache.stocks, fx |-> cache.fx,
          steps |-> <<>>]
    ELSE load_data(env)

----------------------------------------------------------------------------
(* stock_prices *)

\* pd.to_datetime of a date: the Timestamp of that day's midnight
ToDatetime(x) == [kind |-> "datetime", day |-> x.day, ns |-> x.ns]

ConvertDatesDropNull(df) ==
    {[r EXCEPT !.DATE = ToDatetime(r.DATE)] : r \in {x \in df : x.DAY_OVER_DAY_CHANGE # Null}}

\* df_stocks['DATE'] = pd.to_datetime(df_stocks['DATE'])
ConvertDates(df) == {[r EXCEPT !.DATE = ToDatetime(r.DATE)] : r \in df}

TsLeq(a, b) == a.day < b.day \/ (a.day = b.day /\ a.ns <= b.ns)

DateFilterExclusiveEnd(df, start, end) ==
    {r \in df : /\ TsLeq(ToDatetime(PyDate(start)), r.DATE)
                /\ TsLeq(r.DATE, ToDatetime(PyDate(end)))
                /\ r.DATE # ToDatetime(PyDate(end))}

DateFilter(df, start, end) ==
    {r \in df : /\ TsLeq(ToDatetime(PyDate(start)), r.DATE)
                /\ TsLeq(r.DATE, ToDatetime(PyDate(end)))}

TickerFilterEmptyIsAll(df, sel) ==
    IF sel = {} THEN df ELSE {r \in df : r.TICKER \in sel}

TickerFilter(df, sel) == {r \in df : r.TICKER \in sel}

NoChart == [drawn |-> FALSE, data |-> {}, y |-> ""]

\* the widget values a page function finds in the session: fresh widgets take
\* their defaults; a multiselect whose options changed is a new widget
FreshWidgets ==
    [fresh |-> TRUE, dates |-> <<>>, options |-> {}, tickers |-> {},
     metric |-> DefaultMetric, currencies |-> default_currencies]

StockFailed(df, err, dr) ==
    [df_stocks |-> df, status |-> err, date_range |-> dr, date_filter |-> <<>>,
     ticker_options |-> {}, selected_tickers |-> {}, metric |-> DefaultMetric,
     chart |-> NoChart]

\* One call of stock_prices on the table bound in this run: the DATE column is
\* rewritten first, then each widget is read in the order of the code, and the
\* first exception ends the call with the widgets below it not rendered.
stock_prices(df, w) ==
    LET conv == ConvertDates(df)
    IN IF conv = {}
       \* max() of an empty column is NaT, which st.date_input does not take
       THEN StockFailed(conv, "date_input_error", <<>>)
       ELSE
       LET max_date == SetMax({r.DATE.day : r \in conv})
           dr == IF w.fresh THEN <<max_date - DefaultDays, max_date>> ELSE w.dates
       IN IF Len(dr) # 2
          \* start_date, end_date = ...: unpacking fails
          THEN StockFailed(conv, "unpack_error", dr)
          ELSE
          LET filtered == DateFilter(conv, dr[1], dr[2])
              unique_tickers == {r.TICKER : r \in filtered}
              default_tickers == TrackedTickers \cap unique_tickers
              sel == IF ~w.fresh /\ w.options = unique_tickers
                     THEN w.tickers ELSE default_tickers
          IN [df_stocks |-> conv, status |-> "ok", date_range |-> dr,
              date_filter |-> dr, ticker_options |-> unique_tickers,
              selected_tickers |-> sel, metric |-> w.metric,
              chart |-> [drawn |-> TRUE, data |-> TickerFilter(filtered, sel),
                         y |-> w.metric]]

(* fx_rates *)

CurrencyFilter(df, sel) == {r \in df : r.QUOTE_CURRENCY_NAME \in sel}

fx_rates(df, w) ==
    [status |-> "ok", selected_currencies |-> w.currencies,
     chart |-> [drawn |-> TRUE, data |-> CurrencyFilter(df, w.currencies), y |-> "VALUE"]]

----------------------------------------------------------------------------
(* One run of the script, top to bottom *)

Aborted(err, steps) ==
    /\ status' = err
    /\ calls' = steps
    /\ bound' = {}
    /\ df_stocks' = {}
    /\ df_fx' = {}
    /\ page' = "none"
    /\ date_range' = <<>>
    /\ date_filter' = <<>>
    /\ ticker_options' = {}
    /\ selected_tickers' = {}
    /\ metric' = DefaultMetric
    /\ selected_currencies' = {}
    /\ chart' = NoChart
    /\ UNCHANGED <<cache, loads>>

Run(trig, env, pg, w) ==
    LET res == cached_load_data(env)
    IN /\ trigger' = trig
       /\ UNCHANGED <<srcStocks, srcFx>>
       /\ IF env = "connection"
          THEN Aborted("connection_error", <<Step("connect", FALSE)>>)
          ELSE IF ~res.ok
          THEN Aborted(res.error, <<Step("connect", TRUE)>> \o res.steps)
          ELSE
          /\ calls' = <<Step("connect", TRUE)>> \o res.steps
          /\ cache' = [filled |-> TRUE, stocks |-> res.stocks, fx |-> res.fx]
          /\ loads' = IF res.steps = <<>> THEN loads ELSE loads + 1
          /\ bound' = {"df_stocks", "df_fx"}
          /\ df_fx' = res.fx
          /\ page' = pg
          /\ IF pg = StockPage
             THEN LET v == stock_prices(res.stocks, w)
                  IN /\ df_stocks' = v.df_stocks
                     /\ status' = v.status
                     /\ date_range' = v.date_range
                     /\ date_filter' = v.date_filter
                     /\ ticker_options' = v.ticker_options
                     /\ selected_tickers' = v.selected_tickers
                     /\ metric' = v.metric
                     /\ selected_currencies' = {}
                     /\ chart' = v.chart
             ELSE LET v == fx_rates(res.fx, w)
                  IN /\ df_stocks' = res.stocks
                     /\ status' = v.status
                     /\ date_range' = <<>>
                     /\ date_filter' = <<>>
                     /\ ticker_options' = {}
                     /\ selected_tickers' = {}
                     /\ metric' = DefaultMetric
                     /\ selected_currencies' = v.selected_currencies
                     /\ chart' = v.chart

\* a query can fail only in a run that executes it
RunEnvs == IF CacheHit(cache) THEN {"ok", "connection"} ELSE Envs

\* the statuses of a run that reached the sidebar: its widgets can be changed
Rendered == {"ok", "date_input_error", "unpack_error"}

\* st.date_input in range mode delivers a tuple of the days picked so far: none,
\* one (the range is half picked) or two. The days offered here reach one day
\* past both ends of the data, so that a range can lie outside the data.
WidgetDays == 0..(MaxDate + 1)
DateInputs ==
    {<<>>} \cup {<<a>> : a \in WidgetDays} \cup {<<a, b>> : a \in WidgetDays, b \in WidgetDays}
CurrencyChoices == SubsetsUpTo(currencies, MaxSelected)

Current ==
    [fresh |-> FALSE, dates |-> date_range, options |-> ticker_options,
     tickers |-> selected_tickers, metric |-> metric, currencies |-> selected_currencies]

\* the first run of the script in the process
FirstRun ==
    /\ status = "start"
    /\ \E env \in RunEnvs : Run("start", env, StockPage, FreshWidgets)

\* the user reloads the page: a new session of the same process
Reload ==
    /\ status # "start"
    /\ \E env \in RunEnvs : Run("reload", env, StockPage, FreshWidgets)

\* st.sidebar.selectbox changes
SelectPage ==
    /\ status \in Rendered
    /\ \E pg \in Pages \ {page}, env \in RunEnvs : Run("widget", env, pg, FreshWidgets)

\* st.date_input changes
ChangeDateRange ==
    /\ page = StockPage
    /\ status \in {"ok", "unpack_error"}
    /\ \E v \in DateInputs \ {date_range}, env \in RunEnvs :
          Run("widget", env, StockPage, [Current EXCEPT !.dates = v])

\* the ticker multiselect changes
ChangeTickers ==
    /\ page = StockPage
    /\ status = "ok"
    /\ \E S \in (SUBSET ticker_options) \ {selected_tickers}, env \in RunEnvs :
          Run("widget", env, StockPage, [Current EXCEPT !.tickers = S])

\* the metric selectbox changes
ChangeMetric ==
    /\ page = StockPage
    /\ status = "ok"
    /\ \E m \in Metrics \ {metric}, env \in RunEnvs :
          Run("widget", env, StockPage, [Current EXCEPT !.metric = m])

\* the currency multiselect changes
ChangeCurrencies ==
    /\ page = FxPage
    /\ status = "ok"
    /\ \E S \in CurrencyChoices \ {selected_currencies}, env \in RunEnvs :
          Run("widget", env, FxPage, [Current EXCEPT !.currencies = S])

InitSession ==
    /\ cache = [filled |-> FALSE, stocks |-> {}, fx |-> {}]
    /\ bound = {}
    /\ df_stocks = {}
    /\ df_fx = {}
    /\ status = "start"
    /\ trigger = "none"
    /\ calls = <<>>
    /\ loads = 0
    /\ page = "none"
    /\ date_range = <<>>
    /\ date_filter = <<>>
    /\ ticker_options = {}
    /\ selected_tickers = {}
    /\ metric = DefaultMetric
    /\ selected_currencies = {}
    /\ chart = NoChart

Init ==
    /\ \/ srcStocks \in SUBSET SampleStockRows /\ srcFx = {}
       \/ srcStocks = {} /\ srcFx \in SUBSET SampleFxRows
    /\ InitSession

Next ==
    \/ FirstRun
    \/ Reload
    \/ SelectPage
    \/ ChangeDateRange
    \/ ChangeTickers
    \/ ChangeMetric
    \/ ChangeCurrencies

Spec == Init /\ [][Next]_vars

\* load_data over every bounded remote stock table
InitLoad ==
    /\ srcStocks \in SubsetsUpTo(RawStockRows, MaxRows)
    /\ srcFx = SampleFxRows
    /\ InitSession

NextLoad == FirstRun

SpecLoad == InitLoad /\ [][NextLoad]_vars

----------------------------------------------------------------------------
(* Properties *)

HasQuery(steps) ==
    \E i \in DOMAIN steps : steps[i].step \in {"stock_query", "fx_query"}

SameDay(df) == {[r EXCEPT !.DATE = PyDate(r.DATE.day)] : r \in df}

C2_LoadedAtMostOnce ==
    /\ loads <= 1
    /\ trigger = "widget" => ~HasQuery(calls)

C2_Witness ==
    /\ trigger = "widget"
    /\ status = "ok"
    /\ loads = 1
    /\ page = FxPage

FirstOfTicker(df, r) ==
    \A s \in df : s.TICKER = r.TICKER => r.DATE.day <= s.DATE.day

\* C3: in the loaded stock table the earliest row of every ticker has a NULL
\* DAY_OVER_DAY_CHANGE, whatever rows the other tickers have.
C3_FirstRowNull ==
    cache.filled =>
        \A r \in cache.stocks :
            FirstOfTicker(cache.stocks, r) => r.DAY_OVER_DAY_CHANGE = Null

C3_Witness ==
    /\ cache.filled
    /\ \E r, s \in cache.stocks :
          /\ FirstOfTicker(cache.stocks, r)
          /\ r.POSTMARKET_CLOSE # Null
          /\ s.TICKER # r.TICKER
          /\ s.DATE.day < r.DATE.day
          /\ s.POSTMARKET_CLOSE \notin {Null, Some(0)}

Adjacent(df, r1, r2) ==
    /\ r1.TICKER = r2.TICKER
    /\ r1.DATE.day < r2.DATE.day
    /\ ~\E s \in df : /\ s.TICKER = r1.TICKER
                      /\ r1.DATE.day < s.DATE.day
                      /\ s.DATE.day < r2.DATE.day

\* C4: in the loaded stock table, for two rows of one ticker adjacent in date
\* order with closes c1 (earlier, not zero) and c2, the later row's
\* DAY_OVER_DAY_CHANGE is (c2 - c1) / c1.
C4_ChangeFromPreviousRow ==
    cache.filled =>
        \A r1, r2 \in cache.stocks :
            (/\ Adjacent(cache.stocks, r1, r2)
             /\ r1.POSTMARKET_CLOSE \notin {Null, Some(0)}
             /\ r2.POSTMARKET_CLOSE # Null)
            => r2.DAY_OVER_DAY_CHANGE =
                  <<r2.POSTMARKET_CLOSE[1] - r1.POSTMARKET_CLOSE[1], r1.POSTMARKET_CLOSE[1]>>

C4_Witness ==
    /\ cache.filled
    /\ \E r1, r2, s \in cache.stocks :
          /\ Adjacent(cache.stocks, r1, r2)
          /\ r1.POSTMARKET_CLOSE \notin {Null, Some(0)}
          /\ r2.POSTMARKET_CLOSE \notin {Null, r1.POSTMARKET_CLOSE}
          /\ s.TICKER # r1.TICKER
          /\ s.DATE.day = r1.DATE.day

SourceKeys == {<<r.TICKER, r.DATE>> : r \in
                  {x \in srcStocks : /\ x.TICKER \in TrackedTickers
                                     /\ x.VARIABLE_NAME \in StockVariables}}

SourceHas(k, n) ==
    \E x \in srcStocks : x.TICKER = k[1] /\ x.DATE = k[2] /\ x.VARIABLE_NAME = n

\* C5: the loaded stock table has exactly one row per (ticker, date) of the
\* filtered input, duplicates or not, and a variable the key has no row for
\* is NULL in that row.
C5_OneRowPerKey ==
    cache.filled =>
        /\ {<<r.TICKER, r.DATE.day>> : r \in cache.stocks} = SourceKeys
        /\ \A k \in SourceKeys :
              Cardinality({r \in cache.stocks : <<r.TICKER, r.DATE.day>> = k}) = 1
        /\ \A r \in cache.stocks :
              /\ ~SourceHas(<<r.TICKER, r.DATE.day>>, "Nasdaq Volume")
                    => r.NASDAQ_VOLUME = Null
              /\ ~SourceHas(<<r.TICKER, r.DATE.day>>, "Post-Market Close")
                    => r.POSTMARKET_CLOSE = Null

C5_Witness ==
    /\ cache.filled
    /\ \E x, y \in srcStocks :
          /\ x.TICKER = y.TICKER /\ x.DATE = y.DATE
          /\ x.VARIABLE_NAME = y.VARIABLE_NAME /\ x.VALUE # y.VALUE
          /\ x.TICKER \in TrackedTickers /\ x.VARIABLE_NAME \in StockVariables
    /\ \E r \in cache.stocks : r.NASDAQ_VOLUME = Null /\ r.POSTMARKET_CLOSE # Null
    /\ Cardinality(srcStocks) > Cardinality(cache.stocks)

\* C6: in the stock view no value of the date-range widget makes the render
\* pass fail, and the date filter is only applied with start <= end.
C6_DateRangeValidated ==
    page = StockPage =>
        /\ status # "unpack_error"
        /\ date_filter # <<>> => date_filter[1] <= date_filter[2]

\* C7: when the connection or a query fails, neither table is bound, nothing is
\* charted, and the run made no call after the failed one and none twice.
C7_LoadAllOrNothing ==
    (\E i \in DOMAIN calls : ~calls[i].ok) =>
        /\ bound = {}
        /\ df_stocks = {} /\ df_fx = {}
        /\ ~chart.drawn
        /\ \A i \in DOMAIN calls : i < Len(calls) => calls[i].ok
        /\ \A i, j \in DOMAIN calls : i # j => calls[i].step # calls[j].step

C7_Witness ==
    /\ calls = <<Step("connect", TRUE), Step("stock_query", TRUE), Step("fx_query", FALSE)>>
    /\ srcStocks # {}
    /\ bound = {}

\* C8: with no ticker (stock view) or no currency (FX view) selected the chart
\* is drawn from zero rows and the pass ends without error.
C8_EmptySelectionEmptyChart ==
    (\/ page = StockPage /\ date_filter # <<>> /\ selected_tickers = {}
     \/ page = FxPage /\ selected_currencies = {})
    => status = "ok" /\ chart.drawn /\ chart.data = {}

C8_Witness ==
    /\ page = StockPage
    /\ status = "ok"
    /\ selected_tickers = {}
    /\ ticker_options # {}
    /\ chart.drawn

\* C9: the FX view charts exactly the loaded FX rows whose quote currency is
\* selected, and each of them has base EUR and a date from 2019-01-01 on.
C9_FxView ==
    page = FxPage =>
        /\ chart.drawn
        /\ chart.data = {r \in df_fx : r.QUOTE_CURRENCY_NAME \in selected_currencies}
        /\ \A r \in chart.data :
              /\ r.QUOTE_CURRENCY_NAME \in selected_currencies
              /\ r.BASE_CURRENCY_ID = "EUR"
              /\ r.DATE.day >= FxStartDate

C9_Witness ==
    /\ page = FxPage
    /\ selected_currencies = {"Japanese Yen"}
    /\ chart.data # {}
    /\ chart.data # df_fx
    /\ \E x \in srcFx : x.BASE_CURRENCY_ID # "EUR" /\ x.QUOTE_CURRENCY_NAME = "Japanese Yen"
    /\ \E x \in srcFx : x.DATE < FxStartDate /\ x.QUOTE_CURRENCY_NAME = "Japanese Yen"

InRange(r) == date_range[1] <= r.DATE.day /\ r.DATE.day <= date_range[2]

\* C10: for a date range [start, end] the stock view charts exactly the loaded
\* rows with start <= DATE <= end and a selected ticker, offers and selects only
\* tickers of the rows in the range, and a range without data gives zero rows.
C10_StockView ==
    (page = StockPage /\ Len(date_range) = 2) =>
        /\ status = "ok"
        /\ chart.drawn
        /\ chart.data = {r \in df_stocks : InRange(r) /\ r.TICKER \in selected_tickers}
        /\ ticker_options = {r.TICKER : r \in {x \in df_stocks : InRange(x)}}
        /\ selected_tickers \subseteq ticker_options
        /\ trigger # "widget" => selected_tickers = ticker_options \cap TrackedTickers

C10_Witness ==
    /\ page = StockPage
    /\ status = "ok"
    /\ \E r \in chart.data : r.DATE.day = date_range[2]
    /\ \E r \in chart.data : r.DATE.day = date_range[1]
    /\ \E r \in df_stocks : r.DATE.day < date_range[1]
    /\ \E r \in df_stocks : InRange(r) /\ r.TICKER \notin selected_tickers

====
